---- MODULE Spec2Model ----
(***************************************************************************)
(* Over The Horizon: the visibility geometry (math/horizon.js), the ship   *)
(* drawing (rendering/ship.js), the two view renderers and the UI          *)
(* orchestration (main.js, ui/controls.js, ui/animation.js).               *)
(*                                                                         *)
(* Numbers.  The program computes in IEEE doubles; the model computes in   *)
(* fixed point and rounds every result down:                               *)
(*   distances        1/KmUnits km          (0.01 km)                      *)
(*   heights          whole metres          (the sliders have step 1)      *)
(*   refraction k     1/RefrUnits           (1.33 is 133)                  *)
(*   ratios, scales   1/Milli               (0.25 is 250)                  *)
(*   canvas / ship-local lengths   1/Milli of a pixel or local unit        *)
(*   telescope threshold           1/ThrDen of a distance unit             *)
(***************************************************************************)
EXTENDS Integers, Sequences, FiniteSets, TLC

KmUnits == 100
RefrUnits == 100
Milli == 1000

Min(a, b) == IF a <= b THEN a ELSE b
Max(a, b) == IF a >= b THEN a ELSE b

\* Math.sqrt, rounded down.
RECURSIVE IsqrtIter(_, _, _)
IsqrtIter(n, lo, hi) ==
  IF lo >= hi THEN lo
  ELSE LET mid == (lo + hi + 1) \div 2
       IN  IF mid * mid <= n THEN IsqrtIter(n, mid, hi)
                             ELSE IsqrtIter(n, lo, mid - 1)

Sqrt(n) == IsqrtIter(n, 0, 46340)

\* Math.ceil(a / b) for a >= 0, b > 0.
Ceil(a, b) == (a + b - 1) \div b

\* num / den in thousandths, rounded down, for 0 <= num and 0 < den, by
\* long division so that no intermediate product leaves 32 bits.
Ratio(num, den) ==
  LET q0 == num \div den
      r0 == num % den
      d1 == (r0 * 10) \div den
      r1 == (r0 * 10) % den
      d2 == (r1 * 10) \div den
      r2 == (r1 * 10) % den
      d3 == (r2 * 10) \div den
  IN  q0 * Milli + d1 * 100 + d2 * 10 + d3

----------------------------------------------------------------------------
(* math/constants.js *)

EARTH_RADIUS == 7320
DEFAULT_OBSERVER_HEIGHT == 2
DEFAULT_SHIP_HEIGHT == 50
DEFAULT_REFRACTION_FACTOR == 133

\* The value of a refractionFactor parameter that is left out (k = 1.0).
NoRefraction == RefrUnits

----------------------------------------------------------------------------
(* math/horizon.js *)

\* A faulty variant of calculateHorizonDistance: the Earth radius is
\* divided by the refraction factor instead of multiplied.
calculateHorizonDistanceDividingByFactor(observerHeight, earthRadius, refractionFactor) ==
  IF refractionFactor = 0 THEN 0
  ELSE Sqrt((2 * earthRadius * RefrUnits * observerHeight)
              \div (refractionFactor * ((1000 * RefrUnits) \div (KmUnits * KmUnits))))

\* sqrt(2 * R * k * h / 1000) km; the divisor 10 is
\* 1000 * RefrUnits / KmUnits^2.
calculateHorizonDistance(observerHeight, earthRadius, refractionFactor) ==
  Sqrt((2 * earthRadius * refractionFactor * observerHeight)
         \div ((1000 * RefrUnits) \div (KmUnits * KmUnits)))

calculateMaxVisibleDistance(observerHeight, objectHeight, earthRadius, refractionFactor) ==
  calculateHorizonDistance(observerHeight, earthRadius, refractionFactor)
    + calculateHorizonDistance(objectHeight, earthRadius, refractionFactor)

\* A faulty variant of calculateVisiblePortion: the return for
\* distance >= maxVisibleDistance is missing.
calculateVisiblePortionNoFarGuard(distance, observerHeight, objectHeight, earthRadius, refractionFactor) ==
  LET horizonDistance == calculateHorizonDistance(observerHeight, earthRadius, refractionFactor)
      maxVisibleDistance ==
        calculateMaxVisibleDistance(observerHeight, objectHeight, earthRadius, refractionFactor)
      distanceBeyondHorizon == distance - horizonDistance
      totalPossibleDistanceBeyondHorizon == maxVisibleDistance - horizonDistance
  IN  IF distance <= horizonDistance
      THEN [val |-> Milli, ok |-> TRUE]
      ELSE IF totalPossibleDistanceBeyondHorizon = 0
      THEN [val |-> 0, ok |-> FALSE]
      ELSE [val |-> Milli - Ratio(distanceBeyondHorizon, totalPossibleDistanceBeyondHorizon),
            ok |-> TRUE]

\* calculateVisiblePortion: val is the portion in thousandths; ok is FALSE
\* when the quotient divides by zero (NaN or -Infinity in the program).
calculateVisiblePortion(distance, observerHeight, objectHeight, earthRadius, refractionFactor) ==
  LET horizonDistance == calculateHorizonDistance(observerHeight, earthRadius, refractionFactor)
      maxVisibleDistance ==
        calculateMaxVisibleDistance(observerHeight, objectHeight, earthRadius, refractionFactor)
      distanceBeyondHorizon == distance - horizonDistance
      totalPossibleDistanceBeyondHorizon == maxVisibleDistance - horizonDistance
  IN  IF distance <= horizonDistance
      THEN [val |-> Milli, ok |-> TRUE]
      ELSE IF distance >= maxVisibleDistance
      THEN [val |-> 0, ok |-> TRUE]
      ELSE IF totalPossibleDistanceBeyondHorizon = 0
      THEN [val |-> 0, ok |-> FALSE]
      ELSE [val |-> Milli - Ratio(distanceBeyondHorizon, totalPossibleDistanceBeyondHorizon),
            ok |-> TRUE]

\* Math.PI as the fraction PiNum / PiDen.
PiNum == 355
PiDen == 113
\* Default telescopeFieldOfView, in degrees (TELESCOPE_CONSTANTS has no
\* FIELD_OF_VIEW, so render() passes undefined and the default applies).
DefaultFieldOfView == 5
\* significantPortionOfView = 0.2 = 1 / PortionInv.
PortionInv == 5

\* Thresholds are kept in 1/ThrDen of a distance unit, which makes
\* (shipHeight / 1000) / (0.2 * fov * PI / 180) a whole number.
ThrDen == DefaultFieldOfView * PiNum

calculateTelescopeVisibilityThreshold(observerHeight, shipHeight, earthRadius, refractionFactor) ==
  LET maxVisibleDistance ==
        calculateMaxVisibleDistance(observerHeight, shipHeight, earthRadius, refractionFactor)
      telescopeVisibilityDistance ==
        (shipHeight * KmUnits * 180 * PiDen * PortionInv) \div 1000
  IN  Min(maxVisibleDistance * ThrDen, telescopeVisibilityDistance)

\* 2 * earthRadius * refractionFactor, the divisor of
\* calculateMinimumVisibleHeight, in 1/RefrUnits km.
effectiveEarthDiameter(earthRadius, refractionFactor) == 2 * earthRadius * refractionFactor

\* calculateHorizonDistance of a height given in millimetres (a double
\* height need not be a whole number of metres): sqrt(2 * R * k * h) with
\* the product split so that it stays within 32 bits for heights up to 200 m.
calculateHorizonDistanceOfMm(heightMm, earthRadius, refractionFactor) ==
  LET twoRk == effectiveEarthDiameter(earthRadius, refractionFactor)
      unit  == 10 * Milli
  IN  Sqrt((twoRk \div unit) * heightMm + ((twoRk % unit) * heightMm) \div unit)

\* A faulty variant of calculateMinimumVisibleHeight: the height for the
\* whole distance instead of the distance beyond the observer's horizon.
calculateMinimumVisibleHeightOfWholeDistance(distance, observerHeight, earthRadius, refractionFactor) ==
  LET horizonDistance == calculateHorizonDistance(observerHeight, earthRadius, refractionFactor)
  IN  IF distance <= horizonDistance
      THEN 0
      ELSE Ratio(distance * distance * 10,
                 effectiveEarthDiameter(earthRadius, refractionFactor))

\* calculateMinimumVisibleHeight, in millimetres, for valid arguments:
\* (distanceBeyondHorizon^2 / (2 R k)) * 1000 metres.
calculateMinimumVisibleHeight(distance, observerHeight, earthRadius, refractionFactor) ==
  LET horizonDistance == calculateHorizonDistance(observerHeight, earthRadius, refractionFactor)
      distanceBeyondHorizon == distance - horizonDistance
  IN  IF distance <= horizonDistance
      THEN 0
      ELSE Ratio(distanceBeyondHorizon * distanceBeyondHorizon * 10,
                 effectiveEarthDiameter(earthRadius, refractionFactor))

\* What kind of value each function returns for any numbers at all.  None
\* of the functions tests its arguments or throws: Math.sqrt of a negative
\* number is NaN, NaN fails every comparison and passes through arithmetic
\* and Math.min, and a division of a positive number by zero is Infinity.
Sign(n) == IF n < 0 THEN 0 - 1 ELSE IF n = 0 THEN 0 ELSE 1

calculateHorizonDistanceKind(observerHeight, earthRadius, refractionFactor) ==
  IF Sign(earthRadius) * Sign(refractionFactor) * Sign(observerHeight) < 0
  THEN "NaN" ELSE "number"

calculateMaxVisibleDistanceKind(observerHeight, objectHeight, earthRadius, refractionFactor) ==
  IF \/ calculateHorizonDistanceKind(observerHeight, earthRadius, refractionFactor) = "NaN"
     \/ calculateHorizonDistanceKind(objectHeight, earthRadius, refractionFactor) = "NaN"
  THEN "NaN" ELSE "number"

calculateVisiblePortionKind(distance, observerHeight, objectHeight, earthRadius, refractionFactor) ==
  LET hdKind  == calculateHorizonDistanceKind(observerHeight, earthRadius, refractionFactor)
      mvdKind == calculateMaxVisibleDistanceKind(observerHeight, objectHeight, earthRadius,
                                                 refractionFactor)
      horizonDistance == calculateHorizonDistance(observerHeight, earthRadius, refractionFactor)
      maxVisibleDistance ==
        calculateMaxVisibleDistance(observerHeight, objectHeight, earthRadius, refractionFactor)
  IN  IF hdKind = "number" /\ distance <= horizonDistance THEN "number"
      ELSE IF mvdKind = "number" /\ distance >= maxVisibleDistance THEN "number"
      ELSE IF hdKind = "NaN" \/ mvdKind = "NaN" THEN "NaN"
      ELSE "number"

calculateMinimumVisibleHeightKind(distance, observerHeight, earthRadius, refractionFactor) ==
  LET hdKind == calculateHorizonDistanceKind(observerHeight, earthRadius, refractionFactor)
      horizonDistance == calculateHorizonDistance(observerHeight, earthRadius, refractionFactor)
  IN  IF hdKind = "NaN" THEN "NaN"
      ELSE IF distance <= horizonDistance THEN "number"
      ELSE IF effectiveEarthDiameter(earthRadius, refractionFactor) = 0 THEN "Infinity"
      ELSE "number"

calculateTelescopeVisibilityThresholdKind(observerHeight, shipHeight, earthRadius, refractionFactor) ==
  calculateMaxVisibleDistanceKind(observerHeight, shipHeight, earthRadius, refractionFactor)

----------------------------------------------------------------------------
(* rendering/ship.js *)

\* The components drawShip draws, bottom to top.
Parts == {"hull", "superstructure", "funnels", "smoke0", "smoke1", "smoke2", "masts"}

\* Ship height in local coordinates (from waterline to top of masts).
shipHeightLocal == 70

\* drawSmokeFromFunnel: puff i is a disc of radius 3 + 0.8 i centred
\* i * 7 + smokeOffset above the funnel top (y = -25 - 15).
PuffExtent(i, offset) ==
  LET puffY    == (0 - 25 - 15) * Milli - (i * 7 * Milli + offset)
      puffSize == 3 * Milli + i * 800
  IN  [top |-> puffY - puffSize, bottom |-> puffY + puffSize]

\* The vertical extent, in local y (the waterline is y = 0, up is
\* negative), of what drawHull, drawSuperstructure, drawFunnels,
\* drawSimpleSmoke and drawMastsAndAntennas paint.
Silhouette(offset) ==
  [p \in Parts |->
     CASE p = "hull"           -> [top |-> (0 - 11) * Milli, bottom |-> 2 * Milli]
       [] p = "superstructure" -> [top |-> (0 - 32) * Milli, bottom |-> (0 - 11) * Milli]
       [] p = "funnels"        -> [top |-> (0 - 40) * Milli - 1200, bottom |-> (0 - 25) * Milli]
       [] p = "smoke0"         -> PuffExtent(0, offset)
       [] p = "smoke1"         -> PuffExtent(1, offset)
       [] p = "smoke2"         -> PuffExtent(2, offset)
       [] p = "masts"          -> [top |-> (0 - 70) * Milli, bottom |-> (0 - 32) * Milli]]

\* What a drawShip call leaves visible of each component, as an interval of
\* local y of the drawn (unshifted) ship; top >= bottom means nothing.
\* With sinkAmount > 0 the context is translated down by sinkOffset and
\* clipped to rect(-100, -shipHeight - sinkOffset, 200, shipHeight).
drawShip(sinkAmount, offset) ==
  LET hiddenHeight == shipHeightLocal * sinkAmount
      sinkOffset   == hiddenHeight
      clipTop      == (0 - shipHeightLocal) * Milli - sinkOffset
      clipBottom   == clipTop + shipHeightLocal * Milli
  IN  [p \in Parts |->
         IF sinkAmount > 0
         THEN [top    |-> Max(Silhouette(offset)[p].top, clipTop),
               bottom |-> Min(Silhouette(offset)[p].bottom, clipBottom)]
         ELSE Silhouette(offset)[p]]

\* A faulty variant of updateSmoke: the offset advances twice per render.
updateSmokeTwice(offset) == (((offset + 200) % (20 * Milli)) + 200) % (20 * Milli)

\* smokeOffset = (smokeOffset + 0.2) % 20
updateSmoke(offset) == (offset + 200) % (20 * Milli)

calculateShipScale(distance, horizonDistance, baseScale) ==
  IF distance <= horizonDistance
  THEN LET distanceRatio == Ratio(distance, horizonDistance)
       IN  ((Milli - (750 * distanceRatio) \div Milli) * baseScale) \div Milli
  ELSE (250 * baseScale) \div Milli

calculateShipSinking(distance, horizonDistance, maxVisibleDistance) ==
  IF distance <= horizonDistance
  THEN 0
  ELSE LET distanceBeyondHorizon == distance - horizonDistance
           totalPossibleDistanceBeyondHorizon == maxVisibleDistance - horizonDistance
       IN  IF totalPossibleDistanceBeyondHorizon = 0
           THEN Milli   \* Math.min(1, Infinity)
           ELSE Min(Milli, Ratio(distanceBeyondHorizon, totalPossibleDistanceBeyondHorizon))

----------------------------------------------------------------------------
(* rendering/normalView.js *)

MainWidth == 800
MainHeight == 600

\* Math.sqrt(state.shipHeight / 50)
BaseScale(shipHeight) == Sqrt((shipHeight * Milli * Milli) \div 50)

\* Layout of the normal view, in 1/Milli pixel.
NormalHorizonY == (MainHeight * Milli) \div 3
shoreX == MainWidth * 200
shoreY == MainHeight * 700
horizonX == MainWidth * 800

\* A faulty variant of BeforeHorizon: the ship shrinks by 0.8 instead of
\* 0.75 of its scale on the way to the horizon.
BeforeHorizonShrinkMore(st, horizonDistance) ==
  LET distanceRatio == Ratio(st.shipDistance, horizonDistance)
      baseScale == BaseScale(st.shipHeight)
  IN  [shipX |-> shoreX + ((horizonX - shoreX) \div Milli) * distanceRatio,
       shipY |-> shoreY - ((shoreY - NormalHorizonY) \div Milli) * distanceRatio,
       shipScale |-> ((Milli - (800 * distanceRatio) \div Milli) * baseScale) \div Milli,
       sinkAmount |-> 0,
       clipBottom |-> MainHeight * Milli]

\* A faulty variant of BeyondHorizon: the sinking is measured against
\* maxVisibleDistance instead of maxVisibleDistance - horizonDistance.
BeyondHorizonWrongSpan(st, horizonDistance, maxVisibleDistance) ==
  [shipX |-> horizonX,
   shipY |-> NormalHorizonY,
   shipScale |-> (250 * BaseScale(st.shipHeight)) \div Milli,
   sinkAmount |-> Min(Milli, Ratio(st.shipDistance - horizonDistance, maxVisibleDistance)),
   clipBottom |-> NormalHorizonY]

\* The branch of renderNormalView for shipDistance <= horizonDistance: the
\* ship moves from the shore to the horizon, drawn unclipped.
BeforeHorizon(st, horizonDistance) ==
  LET distanceRatio == Ratio(st.shipDistance, horizonDistance)
      baseScale == BaseScale(st.shipHeight)
  IN  [shipX |-> shoreX + ((horizonX - shoreX) \div Milli) * distanceRatio,
       shipY |-> shoreY - ((shoreY - NormalHorizonY) \div Milli) * distanceRatio,
       shipScale |-> ((Milli - (750 * distanceRatio) \div Milli) * baseScale) \div Milli,
       sinkAmount |-> 0,
       clipBottom |-> MainHeight * Milli]

\* The branch for shipDistance > horizonDistance: the ship stays at the
\* horizon and sinks, clipped to rect(0, 0, width, horizonY).
BeyondHorizon(st, horizonDistance, maxVisibleDistance) ==
  LET distanceBeyondHorizon == st.shipDistance - horizonDistance
      totalPossibleDistanceBeyondHorizon == maxVisibleDistance - horizonDistance
      beyondHorizonRatio ==
        IF totalPossibleDistanceBeyondHorizon = 0
        THEN Milli   \* Math.min(1, Infinity)
        ELSE Min(Milli, Ratio(distanceBeyondHorizon, totalPossibleDistanceBeyondHorizon))
      baseScale == BaseScale(st.shipHeight)
  IN  [shipX |-> horizonX,
       shipY |-> NormalHorizonY,
       shipScale |-> (250 * baseScale) \div Milli,
       sinkAmount |-> beyondHorizonRatio,
       clipBottom |-> NormalHorizonY]

\* The distances renderNormalView computes: it passes no refraction
\* factor, so both take the default 1.0.
NormalHorizonDistance(st) ==
  calculateHorizonDistance(st.observerHeight, EARTH_RADIUS, NoRefraction)

NormalMaxVisibleDistance(st) ==
  calculateMaxVisibleDistance(st.observerHeight, st.shipHeight, EARTH_RADIUS, NoRefraction)

\* The draw state renderNormalView derives and hands to drawShip.
renderNormalView(st) ==
  LET horizonDistance == NormalHorizonDistance(st)
      maxVisibleDistance == NormalMaxVisibleDistance(st)
      draw == IF st.shipDistance <= horizonDistance
              THEN BeforeHorizon(st, horizonDistance)
              ELSE BeyondHorizon(st, horizonDistance, maxVisibleDistance)
  IN  [horizonDistance |-> horizonDistance,
       maxVisibleDistance |-> maxVisibleDistance,
       shipX |-> draw.shipX,
       shipY |-> draw.shipY,
       shipScale |-> draw.shipScale,
       sinkAmount |-> draw.sinkAmount,
       clipBottom |-> draw.clipBottom]

----------------------------------------------------------------------------
(* rendering/telescopeView.js *)

TelescopeWidth == 300
TelescopeHeight == 300
\* TELESCOPE_CONSTANTS.MAGNIFICATION
MAGNIFICATION == 4

\* renderShipInTelescopeView(ctx, x, y, scale, sinkAmount): the ship is
\* clipped to rect(0, 0, width, y) and drawn with its waterline at y.
renderShipInTelescopeView(y, scale, sinkAmount) ==
  [shipDrawn |-> TRUE,
   shipY |-> y,
   clipBottom |-> y,
   shipScale |-> scale,
   sinkAmount |-> sinkAmount]

\* The ship of drawTelescopeView: drawn if visibilityFactor > 0 (a NaN
\* factor compares false), lowered by verticalOffset below the horizon.
TelescopeShip(shipScale, sinkAmount, horizonY, visibilityFactor) ==
  IF visibilityFactor.ok /\ visibilityFactor.val > 0
  THEN LET magnifiedShipScale == shipScale * MAGNIFICATION
           shipHeight == shipHeightLocal * magnifiedShipScale
           verticalOffset ==
             ((((Milli - visibilityFactor.val) * shipHeight) \div Milli) * 2) \div 10
       IN  renderShipInTelescopeView(horizonY + verticalOffset, magnifiedShipScale,
                                     sinkAmount)
  ELSE [shipDrawn |-> FALSE,
        shipY |-> horizonY,
        clipBottom |-> horizonY,
        shipScale |-> 0,
        sinkAmount |-> 0]

\* A faulty variant of drawTelescopeView: the ship is drawn after the
\* crosshairs and the border.
drawTelescopeViewShipLast(shipScale, sinkAmount, horizonY, visibilityFactor) ==
  LET ship == TelescopeShip(shipScale, sinkAmount, horizonY, visibilityFactor)
  IN  [shipDrawn |-> ship.shipDrawn,
       shipY |-> ship.shipY,
       clipBottom |-> ship.clipBottom,
       shipScale |-> ship.shipScale,
       sinkAmount |-> ship.sinkAmount,
       ops |-> <<"clearRect", "drawTelescopeBackground", "drawCrosshairs",
                 "drawTelescopeBorder">>
                 \o (IF ship.shipDrawn THEN <<"renderShipInTelescopeView">> ELSE << >>)]

\* drawTelescopeView(ctx, mainCtx, shipScale, sinkAmount, horizonY,
\* visibilityFactor).  ops lists the drawing operations of the call in
\* order: clearing, background, the ship if it is drawn, crosshairs (lines,
\* centre circle and tick marks), border ring.
drawTelescopeView(shipScale, sinkAmount, horizonY, visibilityFactor) ==
  LET ship == TelescopeShip(shipScale, sinkAmount, horizonY, visibilityFactor)
  IN  [shipDrawn |-> ship.shipDrawn,
       shipY |-> ship.shipY,
       clipBottom |-> ship.clipBottom,
       shipScale |-> ship.shipScale,
       sinkAmount |-> ship.sinkAmount,
       ops |-> <<"clearRect", "drawTelescopeBackground">>
                 \o (IF ship.shipDrawn THEN <<"renderShipInTelescopeView">> ELSE << >>)
                 \o <<"drawCrosshairs", "drawTelescopeBorder">>]

----------------------------------------------------------------------------
(* main.js: render *)

\* A faulty variant of VisibilityFactor: the ramp is not cut off at the
\* horizon.
VisibilityFactorUnclamped(shipDistance, visibilityStartDistance, horizonDistance) ==
  IF shipDistance * ThrDen < visibilityStartDistance
  THEN [val |-> 0, ok |-> TRUE, ramp |-> FALSE]
  ELSE LET num == shipDistance * ThrDen - visibilityStartDistance
           den == horizonDistance * ThrDen - visibilityStartDistance
       IN  IF den = 0
           THEN [val |-> 0, ok |-> FALSE, ramp |-> TRUE]
           ELSE IF den < 0
           THEN [val |-> 0 - Ratio(num, 0 - den), ok |-> TRUE, ramp |-> TRUE]
           ELSE [val |-> Ratio(num, den), ok |-> TRUE, ramp |-> TRUE]

\* telescopeVisibilityFactor of render(): 0 below the threshold, the ramp
\* up to the horizon, 1 beyond it.  ok is FALSE when the ramp divides by
\* zero (NaN or Infinity in the program).
VisibilityFactor(shipDistance, visibilityStartDistance, horizonDistance) ==
  IF shipDistance * ThrDen < visibilityStartDistance
  THEN [val |-> 0, ok |-> TRUE, ramp |-> FALSE]
  ELSE IF shipDistance <= horizonDistance
       THEN LET num == shipDistance * ThrDen - visibilityStartDistance
                den == horizonDistance * ThrDen - visibilityStartDistance
            IN  IF den = 0
                THEN [val |-> 0, ok |-> FALSE, ramp |-> TRUE]
                ELSE [val |-> Ratio(num, den), ok |-> TRUE, ramp |-> TRUE]
       ELSE [val |-> Milli, ok |-> TRUE, ramp |-> FALSE]

\* The telescope half of render(), taken when state.telescopeEnabled.
TelescopeView(st) ==
  LET horizonDistance ==
        calculateHorizonDistance(st.observerHeight, EARTH_RADIUS, st.refractionFactor)
      maxVisibleDistance ==
        calculateMaxVisibleDistance(st.observerHeight, st.shipHeight, EARTH_RADIUS,
                                    st.refractionFactor)
      baseScale == BaseScale(st.shipHeight)
      visibilityStartDistance ==
        calculateTelescopeVisibilityThreshold(st.observerHeight, st.shipHeight,
                                              EARTH_RADIUS, st.refractionFactor)
      telescopeVisibilityFactor ==
        VisibilityFactor(st.shipDistance, visibilityStartDistance, horizonDistance)
      shipScale ==
        IF st.shipDistance <= horizonDistance
        THEN ((Milli - (750 * Ratio(st.shipDistance, horizonDistance)) \div Milli) * baseScale)
               \div Milli
        ELSE (250 * baseScale) \div Milli
      sinkAmount ==
        IF st.shipDistance <= horizonDistance
        THEN 0
        ELSE LET distanceBeyondHorizon == st.shipDistance - horizonDistance
                 totalPossibleDistanceBeyondHorizon == maxVisibleDistance - horizonDistance
             IN  IF totalPossibleDistanceBeyondHorizon = 0
                 THEN Milli
                 ELSE Min(Milli, Ratio(distanceBeyondHorizon,
                                       totalPossibleDistanceBeyondHorizon))
      telescopeHorizonY == (TelescopeHeight * Milli) \div 2
  IN  [drawn |-> TRUE,
       horizonDistance |-> horizonDistance,
       maxVisibleDistance |-> maxVisibleDistance,
       visibilityStartDistance |-> visibilityStartDistance,
       visibilityFactor |-> telescopeVisibilityFactor,
       shipScale |-> shipScale,
       sinkAmount |-> sinkAmount,
       horizonY |-> telescopeHorizonY,
       view |-> drawTelescopeView(shipScale, sinkAmount, telescopeHorizonY,
                                  telescopeVisibilityFactor)]

\* The record of a render() that skips the telescope view.
NoTelescope ==
  [drawn |-> FALSE,
   horizonDistance |-> 0,
   maxVisibleDistance |-> 0,
   visibilityStartDistance |-> 0,
   visibilityFactor |-> [val |-> 0, ok |-> TRUE, ramp |-> FALSE],
   shipScale |-> 0,
   sinkAmount |-> 0,
   horizonY |-> (TelescopeHeight * Milli) \div 2,
   view |-> [shipDrawn |-> FALSE,
             shipY |-> (TelescopeHeight * Milli) \div 2,
             clipBottom |-> (TelescopeHeight * Milli) \div 2,
             shipScale |-> 0,
             sinkAmount |-> 0,
             ops |-> << >>]]

\* A faulty variant of render: the telescope view is skipped while the
\* ship is nearer than the telescope visibility threshold.
renderTelescopeWhenVisible(st) ==
  [state |-> st,
   calls |-> IF st.telescopeEnabled /\ TelescopeView(st).visibilityFactor.val > 0
             THEN <<"renderNormalView", "drawTelescopeView">>
             ELSE <<"renderNormalView">>,
   normal |-> renderNormalView(st),
   telescope |-> IF st.telescopeEnabled /\ TelescopeView(st).visibilityFactor.val > 0
                 THEN TelescopeView(st) ELSE NoTelescope]

\* A faulty variant of render: the pass pulls state.shipDistance back to
\* the maximum visible distance renderNormalView computes.
renderClampingShipDistance(st) ==
  LET clamped == [st EXCEPT !.shipDistance = Min(@, NormalMaxVisibleDistance(st))]
  IN  [state |-> clamped,
       calls |-> IF st.telescopeEnabled THEN <<"renderNormalView", "drawTelescopeView">>
                 ELSE <<"renderNormalView">>,
       normal |-> renderNormalView(clamped),
       telescope |-> IF st.telescopeEnabled THEN TelescopeView(clamped) ELSE NoTelescope]

\* One render pass: renderNormalView, then the telescope view if enabled.
\* The pass records the state object as the pass leaves it (no renderer
\* assigns to a field of it) and, in calls, the view renderers in the order
\* render() invokes them.  (The smoke offset that
\* render() advances first feeds only drawSimpleSmoke; ShipSpec carries it.)
render(st) ==
  [state |-> st,
   calls |-> IF st.telescopeEnabled THEN <<"renderNormalView", "drawTelescopeView">>
             ELSE <<"renderNormalView">>,
   normal |-> renderNormalView(st),
   telescope |-> IF st.telescopeEnabled THEN TelescopeView(st) ELSE NoTelescope]

----------------------------------------------------------------------------
(* The application: main.js, ui/controls.js, ui/animation.js *)

VARIABLES
  state,        \* the application state object of main.js
  sliderMax,    \* shipDistanceSlider.max
  ctrl,         \* the AnimationController: animationId, maxDistance, direction
  frames,       \* animation frames requested and neither fired nor cancelled
  passes,       \* the render passes made by the last event, in order
  smokeOffset,  \* smokeOffset of ship.js
  drawn,        \* the last drawShip call: its sinkAmount and what it shows
  call,         \* the last direct call of a function of math/horizon.js
  canvas,       \* mainCtx and telescopeCtx of main.js: whether each is defined
  plot          \* the surface plot: its traces and the closure of surfacePlot.js

appVars == <<state, sliderMax, ctrl, frames, passes>>
shipVars == <<smokeOffset, drawn>>
mathVars == <<call>>
canvasVars == <<canvas>>
plotVars == <<plot>>
vars == <<state, sliderMax, ctrl, frames, passes, smokeOffset, drawn, call, canvas, plot>>

\* Inputs.  The sliders offer every whole height; the model tries the first
\* NumObserverHeights / NumShipHeights of these.
ObserverHeightSamples == <<2, 1, 100, 50>>
ShipHeightSamples == <<50, 100, 5, 30>>
NumObserverHeights == 2
NumShipHeights == 3
ObserverHeights == {ObserverHeightSamples[i] : i \in 1..NumObserverHeights}
ShipHeights == {ShipHeightSamples[i] : i \in 1..NumShipHeights}

\* The options of the refraction control.
RefractionFactors == {100, 110, 120, 133, 150}

\* step of the ship distance slider (0.1 km); the model tries every
\* StepsPerStop-th position and the slider's maximum.
SliderStep == 10
StepsPerStop == 50
StopStep == StepsPerStop * SliderStep
SliderStops(max) == {i * StopStep : i \in 0..(max \div StopStep)} \cup {max}

\* animationSpeed * deltaTime of one animation frame.
FrameAdvances == {StopStep, 3 * StopStep}

\* updateMaxDistance(state, shipDistanceSlider)
updateMaxDistance(st) ==
  LET maxVisibleDistance ==
        calculateMaxVisibleDistance(st.observerHeight, st.shipHeight, EARTH_RADIUS, NoRefraction)
      roundedMaxDistance == Ceil(maxVisibleDistance, 5 * KmUnits) * (5 * KmUnits)
  IN  [st EXCEPT !.maxDistance = roundedMaxDistance,
                 !.shipDistance = IF @ > maxVisibleDistance THEN maxVisibleDistance ELSE @]

\* A faulty variant of start: a frame is requested even while one is
\* outstanding.
startUnguarded(c, fr) ==
  [ctrl |-> [c EXCEPT !.animationId = "pending"], frames |-> fr + 1]

\* AnimationController.start / stop / updateState, on the controller c and
\* the number fr of outstanding frame requests.  animationId is "null", the
\* id of an outstanding request ("pending") or the id of the frame that is
\* running ("spent").
start(c, fr) ==
  IF c.animationId = "null"
  THEN [ctrl |-> [c EXCEPT !.animationId = "pending"], frames |-> fr + 1]
  ELSE [ctrl |-> c, frames |-> fr]

\* A faulty variant of stop: it cancels and counts a request down whether
\* or not one is outstanding.
stopUnguarded(c, fr) ==
  [ctrl |-> [c EXCEPT !.animationId = "null"], frames |-> fr - 1]

\* A faulty variant of stop: the id is forgotten but the frame request is
\* not cancelled.
stopWithoutCancel(c, fr) ==
  IF c.animationId # "null"
  THEN [ctrl |-> [c EXCEPT !.animationId = "null"], frames |-> fr]
  ELSE [ctrl |-> c, frames |-> fr]

stop(c, fr) ==
  IF c.animationId # "null"
  THEN [ctrl |-> [c EXCEPT !.animationId = "null"],
        frames |-> IF c.animationId = "pending" THEN fr - 1 ELSE fr]
  ELSE [ctrl |-> c, frames |-> fr]

updateState(c, fr, st) ==
  IF st.animationEnabled /\ c.animationId = "null" THEN start(c, fr)
  ELSE IF ~st.animationEnabled /\ c.animationId # "null" THEN stop(c, fr)
  ELSE [ctrl |-> c, frames |-> fr]

\* handleStateChange(newState): animationController.updateState, render.
handleStateChange(c, fr, st) ==
  LET a == updateState(c, fr, st)
  IN  [ctrl |-> a.ctrl, frames |-> a.frames, pass |-> render(st)]

\* The state after init(): setupControls (updateMaxDistance), the
\* controller's construction and the initial render.
InitialState ==
  updateMaxDistance(
    [observerHeight |-> DEFAULT_OBSERVER_HEIGHT,
     shipHeight |-> DEFAULT_SHIP_HEIGHT,
     shipDistance |-> 0,
     maxDistance |-> calculateMaxVisibleDistance(DEFAULT_OBSERVER_HEIGHT, DEFAULT_SHIP_HEIGHT,
                                                 EARTH_RADIUS, DEFAULT_REFRACTION_FACTOR),
     telescopeEnabled |-> TRUE,
     animationEnabled |-> FALSE,
     refractionFactor |-> DEFAULT_REFRACTION_FACTOR])

\* ui/surfacePlot.js.  The plot is its list of traces (deleteTraces and
\* addTraces of Plotly count them from 0, the sequence from 1) and the three
\* indices of the closure; deleted is the argument of the last deleteTraces
\* call and deleteOk whether every call so far named traces that exist.
SurfaceTrace == [name |-> "surface", x |-> 0, y |-> 0, z |-> 0]

\* null as the value of a trace index (no trace has a negative index).
NullIndex == 0 - 1

\* Plotly.newPlot(containerId, plotData, ...) with the one surface trace.
createHorizonSurfacePlot ==
  [traces |-> <<SurfaceTrace>>,
   markerTraceIndex |-> NullIndex, xAxisLineIndex |-> NullIndex,
   zAxisLineIndex |-> NullIndex,
   deleted |-> << >>, deleteOk |-> TRUE]

\* The page before initSurfacePlot() has created the plot, or without it.
NoPlot == [createHorizonSurfacePlot EXCEPT !.traces = << >>]

\* Plotly.deleteTraces(containerId, indices): the traces left.
RECURSIVE deleteTraces(_, _)
deleteTraces(traces, indices) ==
  IF traces = << >> THEN << >>
  ELSE LET last == Len(traces)
           rest == deleteTraces(SubSeq(traces, 1, last - 1), indices)
       IN  IF \E j \in 1..Len(indices) : indices[j] = last - 1
           THEN rest ELSE Append(rest, traces[last])

\* Plotly.addTraces(containerId, newTraces) appends them.
addTraces(traces, newTraces) == traces \o newTraces

\* A faulty variant of updateCurrentPositionMarker: the old marker and
\* lines are not deleted before the new ones are added.
updateCurrentPositionMarkerKeepingOld(p, observerHeight, refractionFactor) ==
  LET distance == calculateHorizonDistance(observerHeight, EARTH_RADIUS, refractionFactor)
      markerData == [name |-> "Current Settings", x |-> observerHeight,
                     y |-> refractionFactor, z |-> distance]
      xAxisLine == [name |-> "X-Axis Reference", x |-> 100,
                    y |-> refractionFactor, z |-> distance]
      zAxisLine == [name |-> "Z-Axis Reference", x |-> 100, y |-> 0, z |-> distance]
  IN  [traces |-> addTraces(p.traces, <<markerData, xAxisLine, zAxisLine>>),
       markerTraceIndex |-> 1, xAxisLineIndex |-> 2, zAxisLineIndex |-> 3,
       deleted |-> p.deleted, deleteOk |-> p.deleteOk]

updateCurrentPositionMarker(p, observerHeight, refractionFactor) ==
  LET distance == calculateHorizonDistance(observerHeight, EARTH_RADIUS, refractionFactor)
      markerData == [name |-> "Current Settings", x |-> observerHeight,
                     y |-> refractionFactor, z |-> distance]
      xAxisLine == [name |-> "X-Axis Reference", x |-> 100,
                    y |-> refractionFactor, z |-> distance]
      zAxisLine == [name |-> "Z-Axis Reference", x |-> 100, y |-> 0, z |-> distance]
      exist == p.markerTraceIndex # NullIndex
      indices == IF exist
                 THEN <<p.markerTraceIndex, p.xAxisLineIndex, p.zAxisLineIndex>>
                 ELSE << >>
      kept == IF exist THEN deleteTraces(p.traces, indices) ELSE p.traces
  IN  [traces |-> addTraces(kept, <<markerData, xAxisLine, zAxisLine>>),
       markerTraceIndex |-> 1, xAxisLineIndex |-> 2, zAxisLineIndex |-> 3,
       deleted |-> IF exist THEN indices ELSE p.deleted,
       deleteOk |-> /\ p.deleteOk
                    /\ \A j \in 1..Len(indices) : indices[j] \in 0..(Len(p.traces) - 1)]

\* updateViews() of main.js: updateSurfacePlot(), which updates the marker
\* if the plot exists.
updateViews(p, st) ==
  IF p.traces = << >> THEN p
  ELSE updateCurrentPositionMarker(p, st.observerHeight, st.refractionFactor)

\* initSurfacePlot() has loaded the data, created the plot and placed the
\* first marker for the state st.
PlotInitFor(st) == plot = updateViews(createHorizonSurfacePlot, st)

\* setupCanvas found both canvas elements.
CanvasInit == canvas = [main |-> TRUE, telescope |-> TRUE]

AppInit ==
  /\ CanvasInit
  /\ state = InitialState
  /\ sliderMax = InitialState.maxDistance
  /\ ctrl = [animationId |-> "null", maxDistance |-> InitialState.maxDistance, direction |-> 1]
  /\ frames = 0
  /\ passes = <<render(InitialState)>>

ShipInit ==
  /\ smokeOffset = 0
  /\ drawn = [sinkAmount |-> 0, offset |-> 0, visible |-> drawShip(0, 0)]

MathInit ==
  call = [fn |-> "none", observerHeight |-> DEFAULT_OBSERVER_HEIGHT,
          objectHeight |-> DEFAULT_SHIP_HEIGHT, refractionFactor |-> DEFAULT_REFRACTION_FACTOR]

Init == AppInit /\ PlotInitFor(InitialState) /\ ShipInit /\ MathInit

\* A handler of controls.js that ends in onStateChange(state).
Notify(st) ==
  LET h == handleStateChange(ctrl, frames, st)
  IN  /\ state' = st
      /\ ctrl' = h.ctrl
      /\ frames' = h.frames
      /\ passes' = <<h.pass>>

\* 'input' on the observer height slider: the listener of main.js, then
\* the listener of controls.js.
ObserverHeightInput ==
  \E v \in ObserverHeights :
    LET st == updateMaxDistance([state EXCEPT !.observerHeight = v])
    IN  /\ sliderMax' = st.maxDistance
        /\ Notify(st)
        /\ UNCHANGED <<shipVars, mathVars, canvasVars>>
        /\ plot' = updateViews(plot, state')
ShipHeightInput ==
  \E v \in ShipHeights :
    LET st == updateMaxDistance([state EXCEPT !.shipHeight = v])
    IN  /\ sliderMax' = st.maxDistance
        /\ Notify(st)
        /\ UNCHANGED <<shipVars, mathVars, canvasVars>>
        /\ plot' = updateViews(plot, state')
ShipDistanceInput ==
  \E v \in SliderStops(sliderMax) :
    /\ Notify([state EXCEPT !.shipDistance = v])
    /\ UNCHANGED <<sliderMax, shipVars, mathVars, canvasVars>>
    /\ plot' = updateViews(plot, state')

\* 'change' on the refraction control: only main.js listens.  (Like the
\* other listeners of main.js it ends with updateViews(), which moves the
\* marker of the surface plot.)
RefractionChange ==
  \E k \in RefractionFactors :
    /\ state' = [state EXCEPT !.refractionFactor = k]
    /\ passes' = << >>
    /\ UNCHANGED <<sliderMax, ctrl, frames, shipVars, mathVars, canvasVars>>
    /\ plot' = updateViews(plot, state')
TelescopeToggle ==
  /\ Notify([state EXCEPT !.telescopeEnabled = ~@])
  /\ UNCHANGED <<sliderMax, shipVars, mathVars, canvasVars>>
  /\ plot' = updateViews(plot, state')

\* 'change' on the animation toggle: main.js calls updateState, then
\* controls.js calls onStateChange.
AnimationToggle ==
  LET st == [state EXCEPT !.animationEnabled = ~@]
      a  == updateState(ctrl, frames, st)
      h  == handleStateChange(a.ctrl, a.frames, st)
  IN  /\ state' = st
      /\ ctrl' = h.ctrl
      /\ frames' = h.frames
      /\ passes' = <<h.pass>>
      /\ UNCHANGED <<sliderMax, shipVars, mathVars, canvasVars, plotVars>>

\* A faulty variant of ResetClick: only the listener of controls.js runs,
\* which leaves the refraction factor as it is.
ResetClickControlsOnly ==
  LET st == updateMaxDistance(
              [state EXCEPT !.observerHeight = DEFAULT_OBSERVER_HEIGHT,
                            !.shipHeight = DEFAULT_SHIP_HEIGHT,
                            !.shipDistance = 0,
                            !.telescopeEnabled = FALSE,
                            !.animationEnabled = FALSE])
      h  == handleStateChange(ctrl, frames, st)
  IN  /\ state' = st
      /\ sliderMax' = st.maxDistance
      /\ ctrl' = h.ctrl
      /\ frames' = h.frames
      /\ passes' = <<h.pass>>
      /\ UNCHANGED <<shipVars, mathVars, canvasVars, plotVars>>

\* 'click' on reset: the listener of main.js (keeps the telescope
\* setting), then the listener of controls.js.
ResetClick ==
  LET a   == stop(ctrl, frames)
      st1 == [state EXCEPT !.observerHeight = 2,
                           !.shipHeight = 50,
                           !.shipDistance = 0,
                           !.refractionFactor = 133,
                           !.animationEnabled = FALSE]
      h1  == handleStateChange(a.ctrl, a.frames, st1)
      st2 == updateMaxDistance(
               [st1 EXCEPT !.observerHeight = DEFAULT_OBSERVER_HEIGHT,
                           !.shipHeight = DEFAULT_SHIP_HEIGHT,
                           !.shipDistance = 0,
                           !.telescopeEnabled = FALSE,
                           !.animationEnabled = FALSE])
      h2  == handleStateChange(h1.ctrl, h1.frames, st2)
  IN  /\ state' = st2
      /\ sliderMax' = st2.maxDistance
      /\ ctrl' = h2.ctrl
      /\ frames' = h2.frames
      /\ passes' = <<h1.pass, h2.pass>>
      /\ UNCHANGED <<shipVars, mathVars, canvasVars>>
      /\ plot' = updateViews(plot, state')

\* handleMainCanvasClick
MainCanvasClick ==
  /\ passes' = IF state.telescopeEnabled THEN <<render(state)>> ELSE << >>
  /\ UNCHANGED <<state, sliderMax, ctrl, frames, shipVars, mathVars, canvasVars, plotVars>>

\* A faulty variant of animate: the distance is clamped at the far end
\* but the direction is not reversed there.
AnimationFrameWithoutReversal ==
  /\ frames > 0
  /\ \E advance \in FrameAdvances :
       LET moved == state.shipDistance + advance * ctrl.direction
           st == [state EXCEPT !.shipDistance =
                    IF moved >= ctrl.maxDistance THEN ctrl.maxDistance
                    ELSE IF moved <= 0 THEN 0 ELSE moved]
           c  == [ctrl EXCEPT !.animationId = "spent",
                              !.direction = IF moved <= 0 THEN 1 ELSE @]
           h  == handleStateChange(c, frames - 1, st)
       IN  /\ state' = st
           /\ ctrl' = [h.ctrl EXCEPT !.animationId =
                         IF st.animationEnabled THEN "pending" ELSE "null"]
           /\ frames' = IF st.animationEnabled THEN h.frames + 1 ELSE h.frames
           /\ passes' = <<h.pass>>
           /\ UNCHANGED <<sliderMax, shipVars, mathVars, canvasVars, plotVars>>

\* AnimationController.animate, when an outstanding frame fires.
AnimationFrame ==
  /\ frames > 0
  /\ \E advance \in FrameAdvances :
       LET moved == state.shipDistance + advance * ctrl.direction
           st == [state EXCEPT !.shipDistance =
                    IF moved >= ctrl.maxDistance THEN ctrl.maxDistance
                    ELSE IF moved <= 0 THEN 0 ELSE moved]
           c  == [ctrl EXCEPT !.animationId = "spent",
                              !.direction =
                                IF moved >= ctrl.maxDistance THEN 0 - 1
                                ELSE IF moved <= 0 THEN 1 ELSE @]
           h  == handleStateChange(c, frames - 1, st)
       IN  /\ state' = st
           /\ ctrl' = [h.ctrl EXCEPT !.animationId =
                         IF st.animationEnabled THEN "pending" ELSE "null"]
           /\ frames' = IF st.animationEnabled THEN h.frames + 1 ELSE h.frames
           /\ passes' = <<h.pass>>
           /\ UNCHANGED <<sliderMax, shipVars, mathVars, canvasVars, plotVars>>

Next ==
  \/ ObserverHeightInput
  \/ ShipHeightInput
  \/ ShipDistanceInput
  \/ RefractionChange
  \/ TelescopeToggle
  \/ AnimationToggle
  \/ ResetClick
  \/ MainCanvasClick
  \/ AnimationFrame

Spec == Init /\ [][Next]_vars

----------------------------------------------------------------------------
(* The ship drawing on its own: every render() advances the smoke offset  *)
(* and then has the views call drawShip with a sinkAmount in [0, 1].       *)

\* The model tries the sink amounts i / SinkSteps.
SinkSteps == 8
SinkAmounts == {(i * Milli) \div SinkSteps : i \in 0..SinkSteps}

\* updateSmoke() at the start of render(), then drawShip(ctx, x, y, scale,
\* sinkAmount) from a view.
RenderShip ==
  \E sinkAmount \in SinkAmounts :
    /\ smokeOffset' = updateSmoke(smokeOffset)
    /\ drawn' = [sinkAmount |-> sinkAmount,
                 offset |-> updateSmoke(smokeOffset),
                 visible |-> drawShip(sinkAmount, updateSmoke(smokeOffset))]
    /\ UNCHANGED <<appVars, mathVars, canvasVars, plotVars>>

ShipNext == RenderShip

ShipSpec == Init /\ [][ShipNext]_vars

----------------------------------------------------------------------------
(* render() as a function of the state: any heights the sliders offer,   *)
(* any refraction option, any distance up to the slider's maximum.        *)

\* min and max of the observer height and ship height sliders.
ObserverHeightMin == 1
ObserverHeightMax == 100
ShipHeightMin == 5
ShipHeightMax == 100

\* The model tries HeightSamples heights spread evenly over each slider's
\* range, and the defaults.
HeightSamples == 12
ObserverHeightDomain ==
  {ObserverHeightMin + (i * (ObserverHeightMax - ObserverHeightMin)) \div (HeightSamples - 1) :
     i \in 0..(HeightSamples - 1)} \cup {DEFAULT_OBSERVER_HEIGHT}
ShipHeightDomain ==
  {ShipHeightMin + (i * (ShipHeightMax - ShipHeightMin)) \div (HeightSamples - 1) :
     i \in 0..(HeightSamples - 1)} \cup {DEFAULT_SHIP_HEIGHT}

\* The distances tried for a state: the shore, the horizon and the maximum
\* visible distance with and without refraction, the telescope threshold,
\* points between them, and the slider's maximum.
DistanceSamples(st) ==
  LET hd1  == NormalHorizonDistance(st)
      mvd1 == NormalMaxVisibleDistance(st)
      hdk  == calculateHorizonDistance(st.observerHeight, EARTH_RADIUS, st.refractionFactor)
      mvdk == calculateMaxVisibleDistance(st.observerHeight, st.shipHeight, EARTH_RADIUS,
                                          st.refractionFactor)
      thr  == calculateTelescopeVisibilityThreshold(st.observerHeight, st.shipHeight,
                                                    EARTH_RADIUS, st.refractionFactor)
                \div ThrDen
  IN  {d \in {0, hd1 \div 2, hd1, hd1 + 1, (hd1 + mvd1) \div 2, mvd1,
              thr, thr + 1, (thr + hdk) \div 2, hdk, mvdk, st.maxDistance} :
         d <= st.maxDistance}

RenderInit ==
  /\ CanvasInit
  /\ \E h \in ObserverHeightDomain, H \in ShipHeightDomain, k \in RefractionFactors :
       state = updateMaxDistance([InitialState EXCEPT !.observerHeight = h,
                                                      !.shipHeight = H,
                                                      !.refractionFactor = k])
  /\ sliderMax = state.maxDistance
  /\ ctrl = [animationId |-> "null", maxDistance |-> InitialState.maxDistance, direction |-> 1]
  /\ frames = 0
  /\ passes = <<render(state)>>
  /\ PlotInitFor(state)
  /\ ShipInit
  /\ MathInit

\* The ship is moved to a distance and the state rendered.
RenderAt ==
  \E d \in DistanceSamples(state) :
    /\ Notify([state EXCEPT !.shipDistance = d])
    /\ UNCHANGED <<sliderMax, shipVars, mathVars, canvasVars>>
    /\ plot' = updateViews(plot, state')

RenderNext == RenderAt

RenderSpec == RenderInit /\ [][RenderNext]_vars

----------------------------------------------------------------------------
(* The functions of math/horizon.js called directly, with any heights     *)
(* >= 0 and any distance >= 0.                                            *)

\* The model tries the heights i * 100 / MathHeightSamples metres.
MathHeightSamples == 4
MathHeights == {(i * ObserverHeightMax) \div MathHeightSamples : i \in 0..MathHeightSamples}

\* Distances around the horizon distance and the maximum visible distance
\* of the heights h and H, and far beyond.
MathDistances(h, H, k) ==
  LET hd  == calculateHorizonDistance(h, EARTH_RADIUS, k)
      mvd == calculateMaxVisibleDistance(h, H, EARTH_RADIUS, k)
  IN  {d \in {0, hd \div 2, hd - 1, hd, hd + 1, (hd + mvd) \div 2, mvd - 1, mvd, mvd + 1,
              2 * mvd + KmUnits} : d >= 0}

\* The heights and the refraction factor the functions are called with.
MathSpecInit ==
  /\ AppInit
  /\ PlotInitFor(InitialState)
  /\ ShipInit
  /\ \E h \in MathHeights, H \in MathHeights, k \in RefractionFactors :
       call = [fn |-> "none", observerHeight |-> h, objectHeight |-> H, refractionFactor |-> k]

\* calculateVisiblePortion(distance, observerHeight, objectHeight, EARTH_RADIUS, k)
CallVisiblePortion ==
  \E d \in MathDistances(call.observerHeight, call.objectHeight, call.refractionFactor) :
    /\ call' = [fn |-> "calculateVisiblePortion",
                distance |-> d,
                observerHeight |-> call.observerHeight,
                objectHeight |-> call.objectHeight,
                refractionFactor |-> call.refractionFactor,
                result |-> calculateVisiblePortion(d, call.observerHeight, call.objectHeight,
                                                   EARTH_RADIUS, call.refractionFactor)]
    /\ UNCHANGED <<appVars, shipVars, canvasVars, plotVars>>

MathNext == CallVisiblePortion

MathSpec == MathSpecInit /\ [][MathNext]_vars

----------------------------------------------------------------------------
(* The five functions of math/horizon.js called directly with any numbers, *)
(* valid or not.                                                           *)

\* Heights, Earth radii and refraction factors the functions are called
\* with: negative, zero and positive ones.
GeometryHeights == {0 - 1, 0, 1, DEFAULT_OBSERVER_HEIGHT, DEFAULT_SHIP_HEIGHT, ObserverHeightMax}
GeometryRadii == {0 - EARTH_RADIUS, 0, EARTH_RADIUS \div 2, EARTH_RADIUS}
GeometryFactors == {0 - NoRefraction, 0} \cup RefractionFactors

\* Distances up to 30 km beyond the horizon distance hd.
GeometryDistances(hd) ==
  {0, hd} \cup {hd + b : b \in {1, KmUnits, 10 * KmUnits, 30 * KmUnits}}

ValidParameters(observerHeight, objectHeight, earthRadius, refractionFactor) ==
  /\ observerHeight >= 0
  /\ objectHeight >= 0
  /\ earthRadius > 0
  /\ refractionFactor > 0

GeometryInit ==
  /\ AppInit
  /\ PlotInitFor(InitialState)
  /\ ShipInit
  /\ \E h \in GeometryHeights, H \in GeometryHeights,
        R \in GeometryRadii, k \in GeometryFactors :
       call = [fn |-> "none", observerHeight |-> h, objectHeight |-> H,
               earthRadius |-> R, refractionFactor |-> k,
               distance |-> 0, kind |-> "none", val |-> 0]

\* The record of a call: the value is computed for valid parameters only.
Returned(fn, d, kind, val) ==
  [call EXCEPT !.fn = fn, !.distance = d, !.kind = kind,
               !.val = IF ValidParameters(call.observerHeight, call.objectHeight,
                                          call.earthRadius, call.refractionFactor)
                       THEN val ELSE 0]

HorizonDistanceCall ==
  /\ call' = Returned("calculateHorizonDistance", 0,
               calculateHorizonDistanceKind(call.observerHeight, call.earthRadius,
                                            call.refractionFactor),
               calculateHorizonDistance(call.observerHeight, call.earthRadius,
                                        call.refractionFactor))
  /\ UNCHANGED <<appVars, shipVars, canvasVars, plotVars>>

MaxVisibleDistanceCall ==
  /\ call' = Returned("calculateMaxVisibleDistance", 0,
               calculateMaxVisibleDistanceKind(call.observerHeight, call.objectHeight,
                                               call.earthRadius, call.refractionFactor),
               calculateMaxVisibleDistance(call.observerHeight, call.objectHeight,
                                           call.earthRadius, call.refractionFactor))
  /\ UNCHANGED <<appVars, shipVars, canvasVars, plotVars>>

VisiblePortionCall ==
  \E d \in GeometryDistances(calculateHorizonDistance(call.observerHeight, call.earthRadius,
                                                      call.refractionFactor)) :
    /\ call' = Returned("calculateVisiblePortion", d,
                 calculateVisiblePortionKind(d, call.observerHeight, call.objectHeight,
                                             call.earthRadius, call.refractionFactor),
                 calculateVisiblePortion(d, call.observerHeight, call.objectHeight,
                                         call.earthRadius, call.refractionFactor).val)
    /\ UNCHANGED <<appVars, shipVars, canvasVars, plotVars>>

MinimumVisibleHeightCall ==
  \E d \in GeometryDistances(calculateHorizonDistance(call.observerHeight, call.earthRadius,
                                                      call.refractionFactor)) :
    /\ call' = Returned("calculateMinimumVisibleHeight", d,
                 calculateMinimumVisibleHeightKind(d, call.observerHeight, call.earthRadius,
                                                   call.refractionFactor),
                 calculateMinimumVisibleHeight(d, call.observerHeight, call.earthRadius,
                                               call.refractionFactor))
    /\ UNCHANGED <<appVars, shipVars, canvasVars, plotVars>>

TelescopeVisibilityThresholdCall ==
  /\ call' = Returned("calculateTelescopeVisibilityThreshold", 0,
               calculateTelescopeVisibilityThresholdKind(call.observerHeight, call.objectHeight,
                                                         call.earthRadius, call.refractionFactor),
               calculateTelescopeVisibilityThreshold(call.observerHeight, call.objectHeight,
                                                     call.earthRadius, call.refractionFactor))
  /\ UNCHANGED <<appVars, shipVars, canvasVars, plotVars>>

GeometryNext ==
  \/ HorizonDistanceCall
  \/ MaxVisibleDistanceCall
  \/ VisiblePortionCall
  \/ MinimumVisibleHeightCall
  \/ TelescopeVisibilityThresholdCall

GeometrySpec == GeometryInit /\ [][GeometryNext]_vars

----------------------------------------------------------------------------
(* main.js when setupCanvas finds a canvas element missing: init() logs    *)
(* the failure and returns before setupControls, the AnimationController,  *)
(* the first render and the registration of the main-canvas click          *)
(* listener.  The listeners main.js registers at module level remain.      *)

\* The drawing context of a missing canvas is undefined.  renderNormalView
\* and render read ctx.canvas of their context first, which throws a
\* TypeError on undefined.
renderOn(cv, st) ==
  IF ~cv.main
  THEN [state |-> st, calls |-> <<"renderNormalView">>,
        undefinedContext |-> TRUE, threw |-> TRUE]
  ELSE IF st.telescopeEnabled /\ ~cv.telescope
  THEN [state |-> st, calls |-> <<"renderNormalView">>,
        undefinedContext |-> FALSE, threw |-> TRUE]
  ELSE [state |-> st, calls |-> render(st).calls,
        undefinedContext |-> FALSE, threw |-> FALSE]

\* max of the ship distance slider in index.html (50 km).
SliderMaxAttribute == 50 * KmUnits

\* The state object as the module creates it; the controller is undefined.
MissingCanvasInit ==
  /\ \E missing \in {"main-view", "telescope-view"} :
       canvas = [main |-> missing # "main-view", telescope |-> FALSE]
  /\ state = [observerHeight |-> DEFAULT_OBSERVER_HEIGHT,
              shipHeight |-> DEFAULT_SHIP_HEIGHT,
              shipDistance |-> 0,
              maxDistance |-> calculateMaxVisibleDistance(
                                DEFAULT_OBSERVER_HEIGHT, DEFAULT_SHIP_HEIGHT,
                                EARTH_RADIUS, DEFAULT_REFRACTION_FACTOR),
              telescopeEnabled |-> TRUE,
              animationEnabled |-> FALSE,
              refractionFactor |-> DEFAULT_REFRACTION_FACTOR]
  /\ sliderMax = SliderMaxAttribute
  /\ ctrl = "undefined"
  /\ frames = 0
  /\ passes = << >>
  /\ plot = NoPlot
  /\ ShipInit
  /\ MathInit

\* A listener of main.js that sets a field and updates the display values
\* and the surface plot.
SetOnly(st) ==
  /\ state' = st
  /\ passes' = << >>
  /\ UNCHANGED <<sliderMax, ctrl, frames, shipVars, mathVars, canvasVars, plotVars>>

ObserverHeightInputNoControls ==
  \E v \in ObserverHeights : SetOnly([state EXCEPT !.observerHeight = v])

ShipHeightInputNoControls ==
  \E v \in ShipHeights : SetOnly([state EXCEPT !.shipHeight = v])

ShipDistanceInputNoControls ==
  \E v \in SliderStops(sliderMax) : SetOnly([state EXCEPT !.shipDistance = v])

RefractionChangeNoControls ==
  \E k \in RefractionFactors : SetOnly([state EXCEPT !.refractionFactor = k])

TelescopeToggleNoControls ==
  SetOnly([state EXCEPT !.telescopeEnabled = ~@])

\* animationController is undefined, so updateState is not called.
AnimationToggleNoControls ==
  SetOnly([state EXCEPT !.animationEnabled = ~@])

\* The reset listener of main.js: it skips animationController.stop(), sets
\* the fields and calls handleStateChange, which calls render().
ResetClickNoControls ==
  LET st == [state EXCEPT !.observerHeight = 2,
                          !.shipHeight = 50,
                          !.shipDistance = 0,
                          !.refractionFactor = 133,
                          !.animationEnabled = FALSE]
  IN  /\ state' = st
      /\ passes' = <<renderOn(canvas, st)>>
      /\ UNCHANGED <<sliderMax, ctrl, frames, shipVars, mathVars, canvasVars, plotVars>>

MissingCanvasNext ==
  \/ ObserverHeightInputNoControls
  \/ ShipHeightInputNoControls
  \/ ShipDistanceInputNoControls
  \/ RefractionChangeNoControls
  \/ TelescopeToggleNoControls
  \/ AnimationToggleNoControls
  \/ ResetClickNoControls

MissingCanvasSpec == MissingCanvasInit /\ [][MissingCanvasNext]_vars

----------------------------------------------------------------------------
(* The AnimationController driven directly: start(), stop() and            *)
(* updateState() in any order, with the frame callbacks and the page's     *)
(* own uses of the controller in between.                                  *)

StartCall ==
  LET r == start(ctrl, frames)
  IN  /\ ctrl' = r.ctrl
      /\ frames' = r.frames
      /\ UNCHANGED <<state, sliderMax, passes, shipVars, mathVars, canvasVars, plotVars>>

StopCall ==
  LET r == stop(ctrl, frames)
  IN  /\ ctrl' = r.ctrl
      /\ frames' = r.frames
      /\ UNCHANGED <<state, sliderMax, passes, shipVars, mathVars, canvasVars, plotVars>>

\* updateState(state) after the caller has set state.animationEnabled.
UpdateStateCall ==
  \E enabled \in BOOLEAN :
    LET st == [state EXCEPT !.animationEnabled = enabled]
        r  == updateState(ctrl, frames, st)
    IN  /\ state' = st
        /\ ctrl' = r.ctrl
        /\ frames' = r.frames
        /\ UNCHANGED <<sliderMax, passes, shipVars, mathVars, canvasVars, plotVars>>

\* The direct calls, the frame callback, and the events of the page that
\* reach the controller or move the ship between two frames.
ControllerNext ==
  \/ StartCall
  \/ StopCall
  \/ UpdateStateCall
  \/ AnimationFrame
  \/ AnimationToggle
  \/ ShipDistanceInput
  \/ ResetClick

ControllerSpec == Init /\ [][ControllerNext]_vars

----------------------------------------------------------------------------
(* The animation left running: the user sets the sliders, switches the     *)
(* animation on and then leaves the page alone.  The browser calls every   *)
(* requested animation frame, so AnimationFrame is weakly fair.            *)

\* WF_vars(AnimationFrame) written out: a frame is outstanding
\* (ENABLED <<AnimationFrame>>_vars, for animate() always changes the
\* distance or the direction) exactly when frames > 0.
FrameFairness == []<>(frames = 0) \/ []<><<AnimationFrame>>_vars

RunningNext ==
  \/ ~state.animationEnabled /\ ObserverHeightInput
  \/ ~state.animationEnabled /\ ShipHeightInput
  \/ ~state.animationEnabled /\ ShipDistanceInput
  \/ ~state.animationEnabled /\ AnimationToggle
  \/ AnimationFrame

RunningSpec == Init /\ [][RunningNext]_vars /\ FrameFairness

----------------------------------------------------------------------------
(* The surface plot driven directly: the methods createHorizonSurfacePlot  *)
(* returns, called in any order on the plot it has just created.           *)

PlotSpecInit ==
  /\ AppInit
  /\ plot = createHorizonSurfacePlot
  /\ ShipInit
  /\ MathInit

\* updateCurrentPositionMarker(observerHeight, refractionFactor)
UpdateCurrentPositionMarkerCall ==
  \E h \in ObserverHeightDomain, k \in RefractionFactors :
    /\ plot' = updateCurrentPositionMarker(plot, h, k)
    /\ UNCHANGED <<appVars, shipVars, mathVars, canvasVars>>

\* updatePlotData(newSurfaceData): Plotly.update of trace 0; z numbers the
\* data set.
UpdatePlotDataCall ==
  /\ plot' = [plot EXCEPT !.traces[1].z = 1 - @]
  /\ UNCHANGED <<appVars, shipVars, mathVars, canvasVars>>

PlotNext ==
  \/ UpdateCurrentPositionMarkerCall
  \/ UpdatePlotDataCall

PlotSpec == PlotSpecInit /\ [][PlotNext]_vars

----------------------------------------------------------------------------
(* Properties *)

Passes == {passes[i] : i \in 1..Len(passes)}

\* horizonDistance and maxVisibleDistance of a state, with its refraction.
HorizonDistanceOf(st) ==
  calculateHorizonDistance(st.observerHeight, EARTH_RADIUS, st.refractionFactor)
MaxVisibleDistanceOf(st) ==
  calculateMaxVisibleDistance(st.observerHeight, st.shipHeight, EARTH_RADIUS,
                              st.refractionFactor)

\* C1: at every render, 0 <= shipDistance <= maxVisibleDistance(observerHeight,
\* shipHeight, R, k) for the state that is rendered.
C1_ShipDistanceWithinVisibleRange ==
  \A p \in Passes :
    /\ 0 <= p.state.shipDistance
    /\ p.state.shipDistance <= MaxVisibleDistanceOf(p.state)

\* C2: the horizonDistance and maxVisibleDistance renderNormalView derives
\* are those of the current refractionFactor.
C2_NormalViewUsesRefraction ==
  \A p \in Passes :
    /\ p.normal.horizonDistance = HorizonDistanceOf(p.state)
    /\ p.normal.maxVisibleDistance = MaxVisibleDistanceOf(p.state)

\* C3: when the telescope view is drawn, its sinkAmount and its scale before
\* magnification equal the normal view's for the same state.
C3_TelescopeMatchesNormalView ==
  \A p \in Passes :
    p.telescope.drawn =>
      /\ p.telescope.sinkAmount = p.normal.sinkAmount
      /\ p.telescope.shipScale = p.normal.shipScale

\* C4: for every observer height in [1, 100], ship height in [5, 100] and
\* refraction option, the telescope visibility threshold render() computes
\* is at most the horizon distance.
C4_ThresholdWithinHorizon ==
  \A p \in Passes :
    p.telescope.drawn =>
      p.telescope.visibilityStartDistance <= p.telescope.horizonDistance * ThrDen

\* C5: whenever shipDistance > horizonDistance the telescope visibility
\* factor is 1.
C5_FullyVisibleBeyondHorizon ==
  \A p \in Passes :
    (p.telescope.drawn /\ p.state.shipDistance > p.telescope.horizonDistance) =>
      p.telescope.visibilityFactor.val = Milli

\* C6: the telescope visibility factor is a number in [0, 1], and the ramp
\* is only evaluated with a positive denominator
\* horizonDistance - visibilityStartDistance.
C6_VisibilityFactorWellDefined ==
  \A p \in Passes :
    p.telescope.drawn =>
      /\ p.telescope.visibilityFactor.ok
      /\ 0 <= p.telescope.visibilityFactor.val
      /\ p.telescope.visibilityFactor.val <= Milli
      /\ p.telescope.visibilityFactor.ramp =>
           p.telescope.horizonDistance * ThrDen > p.telescope.visibilityStartDistance

\* C6 witness: a render whose factor comes from the ramp and lies strictly
\* between 0 and 1.
C6_Witness ==
  \E p \in Passes :
    /\ p.telescope.drawn
    /\ p.telescope.visibilityFactor.ramp
    /\ 0 < p.telescope.visibilityFactor.val
    /\ p.telescope.visibilityFactor.val < Milli

\* An interval of local y shows something.
Shown(iv) == iv.top < iv.bottom

\* C7: drawShip with sinkAmount s shows exactly the part of the silhouette
\* whose height above the waterline is at least 70 s: all of it for s = 0,
\* nothing for s = 1.
C7_SinkShowsPartAboveCut ==
  \A p \in Parts :
    LET sil == Silhouette(drawn.offset)[p]
        vis == drawn.visible[p]
        cut == 0 - shipHeightLocal * drawn.sinkAmount
        expected == [top |-> sil.top, bottom |-> Min(sil.bottom, cut)]
    IN  /\ drawn.sinkAmount = 0 => vis = sil
        /\ drawn.sinkAmount = Milli => ~Shown(vis)
        /\ drawn.sinkAmount > 0 =>
             /\ Shown(vis) <=> Shown(expected)
             /\ Shown(vis) => vis = expected

\* C8: in every telescope render that draws the ship, the lower edge of the
\* rectangle the ship is clipped to is not below the horizon line of the
\* telescope view (y grows downwards).
C8_TelescopeClipAboveHorizon ==
  \A p \in Passes :
    (p.telescope.drawn /\ p.telescope.view.shipDrawn) =>
      p.telescope.view.clipBottom <= p.telescope.horizonY

\* The sinkAmount renderNormalView derives for state st moved to distance d.
SinkAt(st, d) == renderNormalView([st EXCEPT !.shipDistance = d]).sinkAmount

\* Distances from lo to hi in increasing order (lo + 2 <= hi).
Between(lo, hi) == <<lo, lo + 1, (lo + hi) \div 2, hi - 1, hi>>

\* The normal view's sinkAmount is non-decreasing along Between(lo, hi),
\* stays in [0, 1], ends at 1, and the rendered pass p fits in.
SinkRises(p, lo, hi) ==
  LET ds == Between(lo, hi)
      sinks == [i \in 1..Len(ds) |-> SinkAt(p.state, ds[i])]
  IN  /\ \A i \in 1..Len(ds) : 0 <= sinks[i] /\ sinks[i] <= Milli
      /\ \A i \in 1..(Len(ds) - 1) : ds[i] <= ds[i + 1] /\ sinks[i] <= sinks[i + 1]
      /\ sinks[Len(ds)] = Milli
      /\ (lo <= p.state.shipDistance /\ p.state.shipDistance <= hi) =>
           /\ sinks[1] <= p.normal.sinkAmount
           /\ p.normal.sinkAmount <= sinks[Len(ds)]

\* C9: for fixed heights and refraction, the normal view's sinkAmount is
\* non-decreasing as shipDistance goes from horizonDistance to
\* maxVisibleDistance, stays in [0, 1] and is exactly 1 at
\* maxVisibleDistance; for the distances the view itself computes and for
\* those of the state's refraction factor.
C9_SinkMonotoneToOne ==
  \A p \in Passes :
    /\ SinkRises(p, p.normal.horizonDistance, p.normal.maxVisibleDistance)
    /\ SinkRises(p, HorizonDistanceOf(p.state), MaxVisibleDistanceOf(p.state))

\* C9 witness: the normal view rendered a ship at its maximum visible
\* distance, beyond the horizon, fully sunk.
C9_Witness ==
  \E p \in Passes :
    /\ p.state.shipDistance = p.normal.maxVisibleDistance
    /\ p.state.shipDistance > p.normal.horizonDistance
    /\ p.normal.sinkAmount = Milli

\* C10: at shipDistance = horizonDistance the normal view takes the
\* pre-horizon branch and derives scale 0.25 baseScale, sinkAmount 0 and
\* the horizon anchor as position: what the post-horizon branch gives at
\* that distance and, but for the sinkAmount, just beyond it.
C10_ContinuousAtHorizon ==
  \A p \in Passes :
    p.state.shipDistance = p.normal.horizonDistance =>
      LET st == p.state
          hd == p.normal.horizonDistance
          mvd == p.normal.maxVisibleDistance
          baseScale == BaseScale(st.shipHeight)
          at == BeyondHorizon(st, hd, mvd)
          after == BeyondHorizon([st EXCEPT !.shipDistance = hd + 1], hd, mvd)
      IN  /\ p.normal.shipScale = (250 * baseScale) \div Milli
          /\ p.normal.sinkAmount = 0
          /\ p.normal.shipX = horizonX
          /\ p.normal.shipY = NormalHorizonY
          /\ at.shipScale = p.normal.shipScale
          /\ at.sinkAmount = p.normal.sinkAmount
          /\ at.shipX = p.normal.shipX
          /\ at.shipY = p.normal.shipY
          /\ after.shipScale = at.shipScale
          /\ after.shipX = at.shipX
          /\ after.shipY = at.shipY
          /\ after.sinkAmount <= Ratio(1, mvd - hd)
          /\ calculateShipScale(hd, hd, baseScale) = calculateShipScale(hd + 1, hd, baseScale)
          /\ calculateShipSinking(hd, hd, mvd) = 0

\* C10 witness: the normal view rendered a ship exactly at its horizon
\* distance.
C10_Witness ==
  \E p \in Passes :
    /\ p.state.shipDistance = p.normal.horizonDistance
    /\ p.normal.horizonDistance > 0
    /\ p.normal.shipX = horizonX
    /\ p.normal.sinkAmount = 0

\* C11: for heights >= 0 and distance >= 0 calculateVisiblePortion returns
\* a number in [0, 1] that is 1 up to horizonDistance, 0 from
\* maxVisibleDistance on and non-increasing in the distance; with object
\* height 0 it returns 0 beyond the horizon without dividing by zero.
C11_VisiblePortionContract ==
  call.fn = "calculateVisiblePortion" =>
    LET h   == call.observerHeight
        H   == call.objectHeight
        k   == call.refractionFactor
        d   == call.distance
        hd  == calculateHorizonDistance(h, EARTH_RADIUS, k)
        mvd == calculateMaxVisibleDistance(h, H, EARTH_RADIUS, k)
    IN  /\ call.result.ok
        /\ 0 <= call.result.val
        /\ call.result.val <= Milli
        /\ d <= hd => call.result.val = Milli
        /\ d >= mvd /\ d > hd => call.result.val = 0
        /\ d >= mvd /\ H > 0 => call.result.val = 0
        /\ \A d2 \in MathDistances(h, H, k) :
             LET other == calculateVisiblePortion(d2, h, H, EARTH_RADIUS, k)
             IN  /\ other.ok
                 /\ d <= d2 => other.val <= call.result.val
                 /\ d2 <= d => call.result.val <= other.val

\* C11 witness: a call with object height 0 and a distance beyond the
\* horizon returned 0.
C11_Witness ==
  /\ call.fn = "calculateVisiblePortion"
  /\ call.objectHeight = 0
  /\ call.observerHeight > 0
  /\ call.distance > calculateHorizonDistance(call.observerHeight, EARTH_RADIUS,
                                              call.refractionFactor)
  /\ call.result = [val |-> 0, ok |-> TRUE]

\* A step changes one of the simulation parameters.
ParameterChanged ==
  \/ state'.observerHeight # state.observerHeight
  \/ state'.shipHeight # state.shipHeight
  \/ state'.shipDistance # state.shipDistance
  \/ state'.refractionFactor # state.refractionFactor
  \/ state'.telescopeEnabled # state.telescopeEnabled

\* C12: every event that changes observerHeight, shipHeight, shipDistance,
\* refractionFactor or telescopeEnabled ends, before the next event is
\* handled, with a render pass of the canvas views on the new values.
C12_RenderFollowsChange ==
  [][ParameterChanged =>
       /\ Len(passes') > 0
       /\ passes'[Len(passes')].state = state']_vars

RECURSIVE CallsOf(_)
CallsOf(ps) == IF ps = << >> THEN << >> ELSE Head(ps).calls \o CallsOf(Tail(ps))

\* C14: every state change invokes renderNormalView exactly once and, when
\* the telescope is enabled, the telescope renderer exactly once, after the
\* normal view.
C14_OneRenderPerChange ==
  [][state' # state =>
       CallsOf(passes') = IF state'.telescopeEnabled
                          THEN <<"renderNormalView", "drawTelescopeView">>
                          ELSE <<"renderNormalView">>]_vars

\* The position of operation op in the sequence ops, 0 if it is absent.
IndexOf(ops, op) ==
  IF \E i \in 1..Len(ops) : ops[i] = op
  THEN CHOOSE i \in 1..Len(ops) : ops[i] = op
  ELSE 0

C16_AnimationWithinMaxDistance ==
  [][AnimationFrame =>
       /\ 0 <= state'.shipDistance
       /\ state'.shipDistance <= state'.maxDistance
       /\ \E advance \in FrameAdvances :
            state'.shipDistance =
              Max(0, Min(state.maxDistance, state.shipDistance + advance * ctrl.direction))
       /\ ctrl'.direction =
            IF state'.shipDistance = state'.maxDistance THEN 0 - 1
            ELSE IF state'.shipDistance = 0 THEN 1
            ELSE ctrl.direction]_vars

\* C17: while state.animationEnabled is false no animation frame is
\* requested, so no tick can run or move the ship until the animation is
\* enabled again, whatever events occur in between.
C17_NoTickWhileDisabled ==
  ~state.animationEnabled =>
    /\ frames = 0
    /\ ctrl.animationId = "null"
    /\ ~ENABLED AnimationFrame

\* C17 witness: the animation has run up to the far end, turned round, and
\* was then switched off away from the shore.
C17_Witness ==
  /\ ~state.animationEnabled
  /\ ctrl.direction = 0 - 1
  /\ state.shipDistance > 0
  /\ frames = 0

\* C18: from any reachable controller state stop() called twice leaves
\* what stop() called once leaves: animationId null, no frame outstanding,
\* direction and maxDistance untouched.
C18_StopIdempotent ==
  LET once  == stop(ctrl, frames)
      twice == stop(once.ctrl, once.frames)
  IN  /\ twice = once
      /\ once.ctrl.animationId = "null"
      /\ once.frames = 0
      /\ once.ctrl.direction = ctrl.direction
      /\ once.ctrl.maxDistance = ctrl.maxDistance

\* C18 witness: the animation is running towards the shore with a frame
\* outstanding, so that the first stop() has a request to cancel.
C18_Witness ==
  /\ ctrl.animationId = "pending"
  /\ frames = 1
  /\ ctrl.direction = 0 - 1
  /\ stop(ctrl, frames).frames = 0

\* C19: a click on reset, from any reachable state, keeps every field of
\* the state object and leaves observerHeight = 2, shipHeight = 50,
\* shipDistance = 0, refractionFactor = 1.33, animationEnabled = false, a
\* maxDistance and no animation frame outstanding.
C19_ResetRestoresDefaults ==
  [][ResetClick =>
       /\ DOMAIN state' = DOMAIN state
       /\ state'.observerHeight = 2
       /\ state'.shipHeight = 50
       /\ state'.shipDistance = 0
       /\ state'.refractionFactor = 133
       /\ ~state'.animationEnabled
       /\ state'.maxDistance > 0
       /\ frames' = 0
       /\ ctrl'.animationId = "null"]_vars

\* C19 witness: the state after a reset (the only event with two render
\* passes) that was clicked with other heights set and after the animation
\* had turned round.
C19_Witness ==
  /\ Len(passes) = 2
  /\ passes[1].state.maxDistance # state.maxDistance
  /\ ctrl.direction = 0 - 1
  /\ state.shipDistance = 0
  /\ frames = 0

\* The maximum visible distance of the parameters of st, refraction
\* included, rounded up to the next multiple of 5 km.
RoundedMaxDistanceOf(st) ==
  Ceil(MaxVisibleDistanceOf(st), 5 * KmUnits) * (5 * KmUnits)

\* C20: after every observer-height change, ship-height change and reset,
\* state.maxDistance and the maximum of the ship-distance slider equal the
\* maximum visible distance of the current parameters (refraction factor
\* included) rounded up to the next multiple of 5 km: 40 km for the defaults.
C20_MaxDistanceTracksParameters ==
  [][(ObserverHeightInput \/ ShipHeightInput \/ ResetClick) =>
       /\ state'.maxDistance = RoundedMaxDistanceOf(state')
       /\ sliderMax' = state'.maxDistance
       /\ (/\ state'.observerHeight = DEFAULT_OBSERVER_HEIGHT
           /\ state'.shipHeight = DEFAULT_SHIP_HEIGHT
           /\ state'.refractionFactor = DEFAULT_REFRACTION_FACTOR
           => state'.maxDistance = 40 * KmUnits)]_vars

\* The parameters of the last direct call are valid.
ValidCall ==
  ValidParameters(call.observerHeight, call.objectHeight, call.earthRadius,
                  call.refractionFactor)

\* The parameters the function called last looks at: the object height is
\* an argument of three of the five functions only.
InvalidCall ==
  \/ call.observerHeight < 0
  \/ call.earthRadius <= 0
  \/ call.refractionFactor <= 0
  \/ /\ call.objectHeight < 0
     /\ call.fn \in {"calculateMaxVisibleDistance", "calculateVisiblePortion",
                     "calculateTelescopeVisibilityThreshold"}

\* C21: each of the five functions of math/horizon.js, called with a
\* negative height, a non-positive Earth radius or a non-positive refraction
\* factor, fails with InvalidParameter and returns neither NaN nor a number.
C21_InvalidParameterRejected ==
  call.fn # "none" /\ InvalidCall => call.kind = "InvalidParameter"

\* C22: after an init() that found a canvas element missing, no event
\* calls a renderer with an undefined drawing context and no render pass
\* throws: rendering is skipped.
C22_NoRenderWithoutCanvas ==
  \A i \in 1..Len(passes) : ~passes[i].undefinedContext /\ ~passes[i].threw

\* C23: a render pass (renderNormalView, the telescope computation and
\* drawTelescopeView) leaves every field of the state as it found it: the
\* state after the pass is the state the event handler rendered.
C23_RenderLeavesStateUnchanged ==
  \A i \in 1..Len(passes) :
    /\ DOMAIN passes[i].state = DOMAIN state
    /\ \A f \in DOMAIN state : passes[i].state[f] = state[f]

\* C23 witness: a pass with the telescope view that drew the ship beyond
\* the maximum visible distance of the normal view.
C23_Witness ==
  /\ Len(passes) = 1
  /\ passes[1].calls = <<"renderNormalView", "drawTelescopeView">>
  /\ state.shipDistance > NormalMaxVisibleDistance(state)
  /\ passes[1].state.shipDistance = state.shipDistance

\* What the fixed-point arithmetic of the model loses in a round trip
\* through calculateMinimumVisibleHeight and calculateHorizonDistance
\* (0.02 km; the least horizon distance of a height >= 1 m is over 2 km).
RoundTripTolerance == KmUnits \div 50

Near(a, b) == a - b <= RoundTripTolerance /\ b - a <= RoundTripTolerance

\* The last call was calculateMinimumVisibleHeight with valid parameters
\* and a distance beyond the observer's horizon.
MinimumVisibleHeightBeyondHorizon ==
  /\ call.fn = "calculateMinimumVisibleHeight"
  /\ ValidCall
  /\ call.distance > calculateHorizonDistance(call.observerHeight, call.earthRadius,
                                              call.refractionFactor)

\* C24 as stated: for a distance beyond the observer's horizon,
\* calculateHorizonDistance of calculateMinimumVisibleHeight(distance, ho, R, k)
\* is the distance again, for every ho >= 0 and k > 0.
C24_HorizonDistanceInvertsMinimumHeight ==
  MinimumVisibleHeightBeyondHorizon =>
    Near(calculateHorizonDistanceOfMm(call.val, call.earthRadius, call.refractionFactor),
         call.distance)

\* C24 amended: the horizon distance of the minimum visible height is the
\* distance beyond the observer's horizon, so the observer's horizon
\* distance plus that of the minimum visible height is the distance again.
C24_MinimumHeightInvertsDistanceBeyondHorizon ==
  MinimumVisibleHeightBeyondHorizon =>
    Near(calculateHorizonDistance(call.observerHeight, call.earthRadius,
                                  call.refractionFactor)
           + calculateHorizonDistanceOfMm(call.val, call.earthRadius, call.refractionFactor),
         call.distance)

\* C24 witness: a call for an observer above sea level and a distance 10 km
\* or more beyond the horizon returned a height whose horizon distance is
\* that excess.
C24_Witness ==
  /\ MinimumVisibleHeightBeyondHorizon
  /\ call.observerHeight > 0
  /\ call.distance >= calculateHorizonDistance(call.observerHeight, call.earthRadius,
                                               call.refractionFactor) + 10 * KmUnits
  /\ call.val > 0
  /\ Near(calculateHorizonDistanceOfMm(call.val, call.earthRadius, call.refractionFactor),
          call.distance - calculateHorizonDistance(call.observerHeight, call.earthRadius,
                                                   call.refractionFactor))

\* C25: for h >= 0, R > 0 and k > 0 calculateHorizonDistance(h, R, k) is
\* >= 0 and does not decrease when h, R or k grows, and it is at most
\* calculateMaxVisibleDistance(h, H, R, k) for every object height H >= 0.
C25_HorizonDistanceMonotone ==
  call.fn = "calculateHorizonDistance" /\ ValidCall =>
    LET h == call.observerHeight
        R == call.earthRadius
        k == call.refractionFactor
    IN  /\ call.kind = "number"
        /\ call.val >= 0
        /\ \A h2 \in GeometryHeights :
             h2 >= h => calculateHorizonDistance(h2, R, k) >= call.val
        /\ \A R2 \in GeometryRadii :
             R2 >= R => calculateHorizonDistance(h, R2, k) >= call.val
        /\ \A k2 \in GeometryFactors :
             k2 >= k => calculateHorizonDistance(h, R, k2) >= call.val
        /\ \A H \in GeometryHeights :
             H >= 0 => call.val <= calculateMaxVisibleDistance(h, H, R, k)

\* C25 witness: a call with a height, a radius and a factor that each have
\* a larger neighbour among the values tried returned a positive distance.
C25_Witness ==
  /\ call.fn = "calculateHorizonDistance"
  /\ ValidCall
  /\ call.val > 0
  /\ \E h2 \in GeometryHeights : h2 > call.observerHeight
  /\ \E R2 \in GeometryRadii : R2 > call.earthRadius
  /\ \E k2 \in GeometryFactors : k2 > call.refractionFactor
  /\ call.val < calculateHorizonDistance(call.observerHeight, call.earthRadius,
                                         DEFAULT_REFRACTION_FACTOR)

\* C26: a click on reset keeps the telescope setting: when both reset
\* listeners have run, state.telescopeEnabled (which the toggle's checked
\* value and the container's visibility are set from) is what it was before
\* the click.
C26_ResetKeepsTelescope ==
  [][ResetClick => state'.telescopeEnabled = state.telescopeEnabled]_vars

\* C27 as stated: the smoke offset after a render pass is never smaller
\* than before it.
C27_SmokeOffsetNeverDecreases ==
  [][RenderShip => smokeOffset' >= smokeOffset]_vars

\* C27 amended: each render pass advances the smoke offset once, by 0.2
\* modulo 20: the offset stays in [0, 20) and decreases only when the sum
\* reaches 20, by 20.
C27_SmokeOffsetAdvancesAndWraps ==
  [][RenderShip =>
       /\ 0 <= smokeOffset' /\ smokeOffset' < 20 * Milli
       /\ \/ smokeOffset' = smokeOffset + 200
          \/ /\ smokeOffset + 200 >= 20 * Milli
             /\ smokeOffset' = smokeOffset + 200 - 20 * Milli]_vars

\* C27 witness: a render pass that drew a sunk ship has brought the
\* offset back to 0.
C27_Witness ==
  /\ smokeOffset = 0
  /\ drawn.offset = 0
  /\ drawn.sinkAmount = Milli

\* C28: after any sequence of start(), stop() and updateState() calls and
\* frame callbacks (updateState re-entered from animate() through
\* handleStateChange included) at most one frame request is outstanding,
\* and animationId is null exactly when none is.
C28_AtMostOneFrameOutstanding ==
  /\ frames \in {0, 1}
  /\ ctrl.animationId = "null" <=> frames = 0
  /\ ctrl.animationId \in {"null", "pending"}

\* C28 witness: frame callbacks have run the ship to the far end and
\* turned it round (each re-entering updateState through
\* handleStateChange), and exactly one request is outstanding.
C28_Witness ==
  /\ ctrl.direction = 0 - 1
  /\ state.animationEnabled
  /\ state.shipDistance > 0
  /\ state.shipDistance < ctrl.maxDistance
  /\ frames = 1
  /\ ctrl.animationId = "pending"

\* C29: while the animation stays enabled and frames keep firing, the ship
\* reaches the controller's maxDistance and later 0 again, over and over,
\* and the tick after one that hit a bound moves the ship back inside the
\* range.
C29_ShipKeepsCrossing ==
  /\ [](state.animationEnabled => <>(state.shipDistance = ctrl.maxDistance))
  /\ [](state.animationEnabled => <>(state.shipDistance = 0))
  /\ [][AnimationFrame =>
          /\ state.shipDistance = ctrl.maxDistance /\ ctrl.direction = 0 - 1
               => state'.shipDistance < ctrl.maxDistance
          /\ state.shipDistance = 0 /\ ctrl.direction = 1
               => state'.shipDistance > 0
          /\ state'.shipDistance = ctrl.maxDistance => ctrl'.direction = 0 - 1
          /\ state'.shipDistance = 0 => ctrl'.direction = 1]_vars

\* C29 witness: with the animation running a tick has taken the ship to
\* the controller's maxDistance and turned it round.
C29_Witness ==
  /\ state.animationEnabled
  /\ ctrl.maxDistance > 0
  /\ state.shipDistance = ctrl.maxDistance
  /\ ctrl.direction = 0 - 1
  /\ frames = 1
  /\ Len(passes) = 1
  /\ passes[1].state = state

\* C30: once updateCurrentPositionMarker has been called, however often,
\* the plot holds exactly four traces, the surface at index 0 and the
\* marker and the two reference lines at indices 1 to 3, and deleteTraces
\* has only been asked for indices that existed.
C30_FourTraces ==
  plot.markerTraceIndex # NullIndex =>
    /\ Len(plot.traces) = 4
    /\ plot.traces[1].name = "surface"
    /\ plot.traces[plot.markerTraceIndex + 1].name = "Current Settings"
    /\ plot.traces[plot.xAxisLineIndex + 1].name = "X-Axis Reference"
    /\ plot.traces[plot.zAxisLineIndex + 1].name = "Z-Axis Reference"
    /\ <<plot.markerTraceIndex, plot.xAxisLineIndex, plot.zAxisLineIndex>> = <<1, 2, 3>>
    /\ plot.deleteOk

\* C30 witness: a second or later call has deleted the three old traces
\* and added the new ones, after the surface data was replaced.
C30_Witness ==
  /\ plot.deleted = <<1, 2, 3>>
  /\ Len(plot.traces) = 4
  /\ plot.traces[1].z = 1
  /\ plot.traces[2].x = ObserverHeightMax

====
